---- MODULE Spec2Model ----
(***************************************************************************)
(* Model of the result translation layer of the graph explorer             *)
(* (src/ui/utils.py) and of the view that drives it                        *)
(* (src/ui/components.py).                                                 *)
(*                                                                         *)
(* A Python dict is a TLA+ function whose domain is its key set.  Every    *)
(* key holds one type of value: "labels" a sequence of strings, "nodes"    *)
(* and "relationships" sequences of dicts, "length" a number, every other  *)
(* key a string.  The iteration order of a dict is the order of KeyOrder   *)
(* restricted to its keys.                                                 *)
(*                                                                         *)
(* A field value is [kind, d]: kind is the Python type of the value        *)
(* ("str", "none", "list", "dict", or a driver object whose type name      *)
(* contains "Node" / "Relationship"), d its content.                       *)
(***************************************************************************)
EXTENDS Integers, Sequences, FiniteSets, TLC

(* ---------------------------------------------------------------------- *)
(* Bounds                                                                  *)
(* ---------------------------------------------------------------------- *)

\* the most field values in a generated result set
MaxValues == 3

\* the most field values in a generated result set that is rendered again
MaxRerenderValues == 2

\* the most calls of execute_query and handle_auto_execute in a session
MaxCalls == 3

\* the most fields in a record of a generated result set
MaxFields == 2

(* ---------------------------------------------------------------------- *)
(* Python dict and str helpers                                             *)
(* ---------------------------------------------------------------------- *)

EmptyDict == [k \in {} |-> ""]

\* k in d
Has(d, k) == k \in DOMAIN d

\* d.get(k, default)
Get(d, k, default) == IF k \in DOMAIN d THEN d[k] ELSE default

\* {k: v for k, v in d.items() if k not in ks}
Without(d, ks) == [k \in (DOMAIN d) \ ks |-> d[k]]

\* {**base, **over}: the later keys win
Merge(base, over) == over @@ base

\* str(x) for x a str: the same str (every modelled identifier is a str)
Str(x) == x

\* bool(x) for x a str
Truthy(x) == x # ""

\* the order in which the items of a dict are iterated
KeyOrder ==
    << "type", "start", "end", "id", "labels", "name", "description",
       "source", "since", "weight", "note", "origin", "path_type",
       "nodes", "relationships", "length", "path_summary" >>

RECURSIVE KeysFrom(_, _)
KeysFrom(d, i) ==
    IF i > Len(KeyOrder) THEN << >>
    ELSE IF KeyOrder[i] \in DOMAIN d
         THEN << KeyOrder[i] >> \o KeysFrom(d, i + 1)
         ELSE KeysFrom(d, i + 1)

\* list(d.keys())
Keys(d) == KeysFrom(d, 1)

\* "/".join(labels)
RECURSIVE JoinSlash(_)
JoinSlash(labels) ==
    IF labels = << >> THEN ""
    ELSE IF Len(labels) = 1 THEN labels[1]
    ELSE labels[1] \o "/" \o JoinSlash(Tail(labels))

\* ", ".join(parts)
RECURSIVE JoinComma(_)
JoinComma(parts) ==
    IF parts = << >> THEN ""
    ELSE IF Len(parts) = 1 THEN parts[1]
    ELSE parts[1] \o ", " \o JoinComma(Tail(parts))

\* xs[:n]
Prefix(xs, n) == SubSeq(xs, 1, IF Len(xs) < n THEN Len(xs) ELSE n)

(* ---------------------------------------------------------------------- *)
(* Field values                                                            *)
(* ---------------------------------------------------------------------- *)

PyStr(s)  == [kind |-> "str",  d |-> ("value" :> s)]
PyNone    == [kind |-> "none", d |-> EmptyDict]
PyList    == [kind |-> "list", d |-> EmptyDict]
PyDict(d) == [kind |-> "dict", d |-> d]
\* neo4j.graph.Node: element_id, labels, and its properties as items
LiveNode(eid, labels, props) ==
    [kind |-> "Node",
     d |-> ("element_id" :> eid) @@ ("labels" :> labels) @@ ("props" :> props)]
\* neo4j.graph.Relationship: element_id, type, the element ids of both ends
LiveRelationship(eid, t, s, e, props) ==
    [kind |-> "Relationship",
     d |-> ("element_id" :> eid) @@ ("type" :> t) @@ ("start" :> s)
           @@ ("end" :> e) @@ ("props" :> props)]

NodeDict(id, name, labels) ==
    ("id" :> id) @@ ("name" :> name) @@ ("labels" :> labels)

RelDict(t, s, e) == ("type" :> t) @@ ("start" :> s) @@ ("end" :> e)

LongDescription ==
    "Gwyn, Lord of Sunlight, found a Lord Soul in the First Flame and with it " \o
    "waged war on the everlasting dragons before linking the fire himself."

\* a description of exactly 100 characters
ExactDescription ==
    "Nito, first of the dead, found a Lord Soul in the " \o
    "First Flame and sleeps beneath the Catacombs now.."

NodeGwynA   == NodeDict("A", "Gwyn", << "Character" >>)
NodeGwynB   == NodeDict("B", "Gwyn", << "Character", "Boss" >>)
                 @@ ("description" :> LongDescription)
NodeSunB    == NodeDict("B", "Lord of Sunlight", << "Character" >>)
NodeGraveC  == NodeDict("C", "Gravelord", << "Character" >>)
NodeBare    == ("labels" :> << >>) @@ ("description" :> "")
NodeTyped   == NodeGraveC @@ ("type" :> "Boss")
                 @@ ("description" :> "First of the dead")
NodeNoLabel == ("id" :> "D") @@ ("name" :> "Ornstein")
RelAB       == RelDict("ALSO_KNOWN_AS", "A", "B")
RelABSince  == RelAB @@ ("since" :> "Age of Fire")
RelAEmpty   == RelDict("ALSO_KNOWN_AS", "A", "")
RelCBSource == RelDict("ALSO_KNOWN_AS", "C", "B") @@ ("source" :> "A")
RelNoStart  == ("type" :> "SERVES") @@ ("end" :> "D")
TypeOnly    == ("type" :> "Boss")
OtherDict   == ("note" :> "kiln")
RelCCSource == RelDict("SERVES", "C", "C") @@ ("source" :> "A")

PathDict(nodes, rels) ==
    ("path_type" :> "neo4j_path") @@ ("nodes" :> nodes)
      @@ ("relationships" :> rels) @@ ("length" :> Len(rels))
      @@ ("path_summary" :> "Path")

LiveProps ==
    ("name" :> "Gwyn") @@ ("description" :> ExactDescription)

LiveRelProps ==
    ("since" :> "Age of Fire") @@ ("weight" :> "3") @@ ("note" :> "kiln")
      @@ ("origin" :> "wiki")

\* the field values a generated result set is made of
Values ==
    { PyStr("Anor Londo"), PyNone, PyList,
      PyDict(OtherDict), PyDict(TypeOnly),
      PyDict(NodeGwynB), PyDict(NodeBare),
      PyDict(NodeTyped),
      PyDict(RelABSince), PyDict(RelAEmpty),
      PyDict(RelCBSource),
      PyDict(PathDict(<< NodeGwynA, NodeSunB >>, << RelAB >>)),
      PyDict(PathDict(<< NodeNoLabel >>, << RelNoStart >>)),
      PyDict(PathDict(<< NodeGraveC >>, << RelCCSource >>)),
      LiveNode("A", << >>, LiveProps),
      LiveRelationship("R1", "ALSO_KNOWN_AS", "A", "B", LiveRelProps) }

(* ---------------------------------------------------------------------- *)
(* Result sets: a sequence of records, a record a sequence of fields       *)
(* ---------------------------------------------------------------------- *)

Field(k, v) == [key |-> k, value |-> v]

\* the field names of the generated records
FieldName(i) == "f" \o ToString(i)

\* the records of a query that returns the values vs, MaxFields to a record:
\* every record has the fields f1, f2, ..., the last one maybe fewer
Records(vs) ==
    [r \in 1..((Len(vs) + MaxFields - 1) \div MaxFields) |->
       [j \in 1..(IF r * MaxFields <= Len(vs) THEN MaxFields
                  ELSE Len(vs) - (r - 1) * MaxFields) |->
          Field(FieldName(j), vs[(r - 1) * MaxFields + j])]]

GwynRecord(endId, other) ==
    << Field("c", PyDict(NodeGwynA)),
       Field("r", PyDict(RelDict("ALSO_KNOWN_AS", "A", endId))),
       Field("other", PyDict(other)) >>

\* the worked example of the spec: MATCH (c)-[r]-(other) RETURN c, r, other
GwynExample == << GwynRecord("B", NodeSunB), GwynRecord("C", NodeGraveC) >>

\* the primitive-only example of the spec
PrimitiveExample == << << Field("LocationName", PyStr("Anor Londo")) >> >>

\* the fields of a result set: << record index, field index >>
FieldsOf(rs) ==
    UNION { { << i, j >> : j \in 1..Len(rs[i]) } : i \in 1..Len(rs) }

\* the first field at or after record i, << Len(rs) + 1, 1 >> when none is left
RECURSIVE FirstField(_, _)
FirstField(rs, i) ==
    IF i > Len(rs) THEN << Len(rs) + 1, 1 >>
    ELSE IF Len(rs[i]) > 0 THEN << i, 1 >>
    ELSE FirstField(rs, i + 1)

\* the field the two nested loops visit after the field p
NextField(rs, p) ==
    IF p[2] < Len(rs[p[1]]) THEN << p[1], p[2] + 1 >>
    ELSE FirstField(rs, p[1] + 1)

(* ---------------------------------------------------------------------- *)
(* Object classifier                                                       *)
(* ---------------------------------------------------------------------- *)

\* "Node" in str(type(value))
IsLiveNode(v) == v.kind = "Node"

\* "Relationship" in str(type(value))
IsLiveRelationship(v) == v.kind = "Relationship"

\* isinstance(value, dict)
IsDict(v) == v.kind = "dict"

\* value.get("path_type") == "neo4j_path"
IsPathDict(d) == Has(d, "path_type") /\ d["path_type"] = "neo4j_path"

\* IsGraphValue without the "labels" test
IsGraphValueNoLabels(v) ==
    \/ IsLiveNode(v)
    \/ IsLiveRelationship(v)
    \/ (IsDict(v) /\ (Has(v.d, "type") \/ IsPathDict(v.d)))

\* the test has_graph_objects applies to one field value
IsGraphValue(v) ==
    \/ IsLiveNode(v)
    \/ IsLiveRelationship(v)
    \/ (IsDict(v) /\ (Has(v.d, "labels") \/ Has(v.d, "type") \/ IsPathDict(v.d)))

has_graph_objects(rs) ==
    \E p \in FieldsOf(rs) : IsGraphValue(rs[p[1]][p[2]].value)

(* ---------------------------------------------------------------------- *)
(* Graph extractor                                                         *)
(*                                                                         *)
(* The working collections of one call are the record                      *)
(*   [nbn |-> nodes_by_name, rbk |-> relationships_by_key,                 *)
(*    idn |-> node_id_to_name,                                             *)
(*    log |-> the relationships visited so far, seen |-> the nodes]        *)
(* nbn and rbk keep insertion order: sequences of [key, val].              *)
(* ---------------------------------------------------------------------- *)

\* key in an insertion-ordered dict
InOrdered(od, key) == \E i \in 1..Len(od) : od[i].key = key

\* list(od.values())
OrderedValues(od) == [i \in 1..Len(od) |-> od[i].val]

\* if key not in od: od[key] = val
InsertIfAbsent(od, key, val) ==
    IF InOrdered(od, key) THEN od ELSE Append(od, [key |-> key, val |-> val])

\* MapId that records nothing
MapIdNever(idn, node_id, node_name) == idn

\* node_id_to_name[node_id] = node_name
MapId(idn, node_id, node_name) == (node_id :> node_name) @@ idn

\* InsertNode without the membership test
InsertNodeAlways(nbn, node_name, node_data) ==
    Append(nbn, [key |-> node_name, val |-> node_data])

\* if node_name not in nodes_by_name: nodes_by_name[node_name] = node_data
InsertNode(nbn, node_name, node_data) == InsertIfAbsent(nbn, node_name, node_data)

\* if rel_key not in relationships_by_key: relationships_by_key[rel_key] = ...
InsertRelationship(rbk, rel_key, rel_data) == InsertIfAbsent(rbk, rel_key, rel_data)

\* the record of a node-like value that was visited
Seen(node_name, node_id, has_labels, labels) ==
    [name |-> node_name, id |-> node_id, has_labels |-> has_labels,
     labels |-> labels]

NodeData(node_name, node_type, rest) ==
    Merge(("id" :> node_name) @@ ("name" :> node_name) @@ ("type" :> node_type),
          rest)

RelationshipData(start_name, end_name, rel_type, rest) ==
    Merge(("source" :> start_name) @@ ("target" :> end_name)
            @@ ("type" :> rel_type),
          rest)

\* the type written for a driver node
LiveNodeType(labels) == IF labels # << >> THEN JoinSlash(labels) ELSE "Unknown"

\* the type written for a node dictionary
DictNodeType(node) == JoinSlash(Get(node, "labels", << "Unknown" >>))

_process_node_for_graph(value, acc) ==
    LET labels    == value.d["labels"]
        props     == value.d["props"]
        node_name == Get(props, "name", Str(value.d["element_id"]))
        node_id   == value.d["element_id"]
    IN  [acc EXCEPT
           !.idn = MapId(@, node_id, node_name),
           !.nbn = InsertNode(@, node_name,
                     NodeData(node_name, LiveNodeType(labels),
                              Without(props, {"id", "name"}))),
           !.seen = Append(@, Seen(node_name, node_id, TRUE, labels))]

\* the part shared by the three relationship handlers, from the resolution
\* of the endpoints on
StoreRelationship(acc, start_id, end_id, rel_type, rest) ==
    LET start_name == Get(acc.idn, start_id, start_id)
        end_name   == Get(acc.idn, end_id, end_id)
        rel_key    == << start_name, end_name, rel_type >>
    IN  [acc EXCEPT
           !.rbk = InsertRelationship(@, rel_key,
                     RelationshipData(start_name, end_name, rel_type, rest)),
           !.log = Append(@, [key |-> rel_key, rest |-> rest,
                              raw |-> << start_id, end_id >>,
                              known |-> << Has(acc.idn, start_id),
                                           Has(acc.idn, end_id) >>])]

_process_relationship_for_graph(value, acc) ==
    StoreRelationship(acc, value.d["start"], value.d["end"], value.d["type"],
                      Without(value.d["props"], {"type", "start", "end"}))

_process_relationship_dict_for_graph(rel, acc) ==
    StoreRelationship(acc, Str(Get(rel, "start", "")), Str(Get(rel, "end", "")),
                      Get(rel, "type", "Unknown"),
                      Without(rel, {"type", "start", "end"}))

_process_node_dict_for_graph(node, acc, key) ==
    LET node_name == Get(node, "name", Str(Get(node, "id", key)))
        node_id   == Str(Get(node, "id", node_name))
    IN  [acc EXCEPT
           !.idn = MapId(@, node_id, node_name),
           !.nbn = InsertNode(@, node_name,
                     NodeData(node_name, DictNodeType(node),
                              Without(node, {"labels", "id", "name"}))),
           !.seen = Append(@, Seen(node_name, node_id, Has(node, "labels"),
                                   Get(node, "labels", << >>)))]

\* the first loop of _process_path_for_graph on one node of the path
PathNode(node, acc) ==
    _process_node_dict_for_graph(node, acc,
                                 "path_node_" \o ToString(Len(acc.nbn)))

RECURSIVE PathNodes(_, _)
PathNodes(nodes, acc) ==
    IF nodes = << >> THEN acc
    ELSE PathNodes(Tail(nodes), PathNode(Head(nodes), acc))

RECURSIVE PathRelationships(_, _)
PathRelationships(rels, acc) ==
    IF rels = << >> THEN acc
    ELSE PathRelationships(Tail(rels),
                           _process_relationship_dict_for_graph(Head(rels), acc))

_process_path_for_graph(value, acc) ==
    PathRelationships(Get(value, "relationships", << >>),
                      PathNodes(Get(value, "nodes", << >>), acc))

\* IsRelationshipDict that asks for the type only
IsRelationshipDictTypeOnly(d) == Has(d, "type")

\* the test of the relationship dict branch
IsRelationshipDict(d) == Has(d, "type") /\ Has(d, "start") /\ Has(d, "end")

\* the body of the loop of extract_nodes_and_relationships on one field
ProcessField(f, acc) ==
    IF IsLiveNode(f.value) THEN _process_node_for_graph(f.value, acc)
    ELSE IF IsLiveRelationship(f.value)
         THEN _process_relationship_for_graph(f.value, acc)
    ELSE IF IsDict(f.value)
         THEN IF IsPathDict(f.value.d)
              THEN _process_path_for_graph(f.value.d, acc)
              ELSE IF Has(f.value.d, "labels")
                   THEN _process_node_dict_for_graph(f.value.d, acc, f.key)
              ELSE IF IsRelationshipDict(f.value.d)
                   THEN _process_relationship_dict_for_graph(f.value.d, acc)
              ELSE acc
    ELSE acc

\* the loop of extract_nodes_and_relationships from the field p on
RECURSIVE ExtractFrom(_, _, _)
ExtractFrom(rs, p, acc) ==
    IF p[1] > Len(rs) THEN acc
    ELSE ExtractFrom(rs, NextField(rs, p), ProcessField(rs[p[1]][p[2]], acc))

\* the names _add_missing_referenced_nodes makes a placeholder for
MissingNames(relationships, nbn) ==
    { n \in { relationships[i]["source"] : i \in 1..Len(relationships) }
              \cup { relationships[i]["target"] : i \in 1..Len(relationships) } :
        Truthy(n) /\ ~InOrdered(nbn, n) }

Placeholder(node_name) ==
    ("id" :> node_name) @@ ("name" :> node_name) @@ ("type" :> "Referenced")

\* every order in which a Python set of the names can be iterated
Orderings(S) ==
    { s \in [1..Cardinality(S) -> S] : \A n \in S : \E i \in DOMAIN s : s[i] = n }

(* ---------------------------------------------------------------------- *)
(* Tabular projector                                                       *)
(*                                                                         *)
(* A row is an insertion-ordered dict: a sequence of [key, val], key the   *)
(* column name as the loop writes it.  A DataFrame is                      *)
(*   [columns |-> its column labels, rows |-> its rows]                    *)
(* ---------------------------------------------------------------------- *)

\* the longest description shown in full
DescriptionLimit == 100

\* the number of custom properties shown
PropertyLimit == 3

\* the number of records of the fallback rendering
FallbackLimit == 10

\* od[key] = val
SetItem(od, key, val) ==
    IF InOrdered(od, key)
    THEN [i \in 1..Len(od) |->
            IF od[i].key = key THEN [key |-> key, val |-> val] ELSE od[i]]
    ELSE Append(od, [key |-> key, val |-> val])

\* od[key], for a key in od
Item(od, key) == od[CHOOSE i \in 1..Len(od) : od[i].key = key].val

\* Truncate that also cuts a description of exactly the limit
TruncateFromLimit(desc) ==
    IF Len(desc) >= DescriptionLimit
    THEN SubSeq(desc, 1, DescriptionLimit) \o "..."
    ELSE desc

\* desc[:100] + "..." if len(desc) > 100
Truncate(desc) ==
    IF Len(desc) > DescriptionLimit
    THEN SubSeq(desc, 1, DescriptionLimit) \o "..."
    ELSE desc

\* len(str(d)) for a dict of strings: {'k': 'v', 'k': 'v'}
RECURSIVE ItemsLen(_, _)
ItemsLen(d, ks) ==
    IF ks = << >> THEN 0
    ELSE Len(Head(ks)) + Len(d[Head(ks)]) + 6
           + (IF Len(ks) > 1 THEN 2 ELSE 0) + ItemsLen(d, Tail(ks))

ReprLen(d) == 2 + ItemsLen(d, Keys(d))

\* str(value) of a list or a dict: the text of the value
PyRepr(v) == [str_of |-> v, cut |-> 0]

\* value_str[:100] + "..." if len(value_str) > 100 else value_str
TruncatedRepr(v) ==
    IF ReprLen(v.d) > DescriptionLimit
    THEN [str_of |-> v, cut |-> DescriptionLimit]
    ELSE PyRepr(v)

\* the description column of a node, when the description is not empty
WithDescription(row, key, props) ==
    IF Has(props, "description") /\ Truthy(props["description"])
    THEN SetItem(row, key \o "_description", Truncate(Str(props["description"])))
    ELSE row

\* [f"{k}: {v}" for k, v in list(custom_props.items())[:3]]
PropList(custom, ks) ==
    [i \in 1..Len(Prefix(ks, PropertyLimit)) |-> ks[i] \o ": " \o custom[ks[i]]]

LiveNodeColumns(row, key, value) ==
    LET props == value.d["props"]
        r1 == SetItem(row, key \o "_name", Get(props, "name", "N/A"))
        r2 == SetItem(r1, key \o "_type", JoinSlash(value.d["labels"]))
        r3 == SetItem(r2, key \o "_id", value.d["element_id"])
    IN  WithDescription(r3, key, props)

\* (no modelled property is None, so the "v is not None" filter keeps all)
LiveRelationshipColumns(row, key, value) ==
    LET custom == Without(value.d["props"], {"type", "start", "end"})
        r1 == SetItem(row, key \o "_relationship", value.d["type"])
        r2 == SetItem(r1, key \o "_id", value.d["element_id"])
    IN  IF DOMAIN custom # {}
        THEN SetItem(r2, key \o "_properties",
                     JoinComma(PropList(custom, Keys(custom))))
        ELSE r2

PathColumns(row, key, d) ==
    LET nodes == Get(d, "nodes", << >>)
        r1 == SetItem(row, key \o "_path_summary", Get(d, "path_summary", "Path"))
        r2 == SetItem(r1, key \o "_path_length", Get(d, "length", 0))
        r3 == SetItem(r2, key \o "_nodes_count", Len(nodes))
        r4 == SetItem(r3, key \o "_relationships_count",
                      Len(Get(d, "relationships", << >>)))
        r5 == IF nodes # << >>
              THEN SetItem(r4, key \o "_start_node",
                           Get(nodes[1], "name", "Unknown"))
              ELSE r4
    IN  IF Len(nodes) > 1
        THEN SetItem(r5, key \o "_end_node",
                     Get(nodes[Len(nodes)], "name", "Unknown"))
        ELSE r5

NodeDictColumns(row, key, d) ==
    LET r1 == SetItem(row, key \o "_name", Get(d, "name", "N/A"))
        r2 == SetItem(r1, key \o "_type", JoinSlash(Get(d, "labels", << >>)))
    IN  WithDescription(r2, key, d)

RelationshipDictColumns(row, key, d) ==
    SetItem(row, key \o "_relationship", Get(d, "type", "Unknown"))

\* the cell of a value that is passed through: the value, "" for None
Verbatim(v) == IF v.kind = "none" THEN "" ELSE v

\* the body of the loop over record.items() when has_neo4j_objects is set
GraphLikeColumns(row, key, value) ==
    IF IsLiveNode(value) THEN LiveNodeColumns(row, key, value)
    ELSE IF IsLiveRelationship(value)
    THEN LiveRelationshipColumns(row, key, value)
    ELSE IF IsDict(value)
    THEN IF IsPathDict(value.d) THEN PathColumns(row, key, value.d)
         ELSE IF Has(value.d, "labels") THEN NodeDictColumns(row, key, value.d)
         ELSE IF Has(value.d, "type")
         THEN RelationshipDictColumns(row, key, value.d)
         ELSE SetItem(row, key, TruncatedRepr(value))
    ELSE SetItem(row, key, Verbatim(value))

\* GenericColumns that passes lists and dicts through
GenericColumnsNoStr(row, key, value) == SetItem(row, key, Verbatim(value))

\* the body of the loop over record.items() of the generic layout
GenericColumns(row, key, value) ==
    IF value.kind \in {"list", "dict"} THEN SetItem(row, key, PyRepr(value))
    ELSE SetItem(row, key, Verbatim(value))

RECURSIVE BuildRow(_, _, _)
BuildRow(record, row, graphLike) ==
    IF record = << >> THEN row
    ELSE BuildRow(Tail(record),
                  IF graphLike
                  THEN GraphLikeColumns(row, Head(record).key, Head(record).value)
                  ELSE GenericColumns(row, Head(record).key, Head(record).value),
                  graphLike)

\* table_data / df_data
TableData(rs, graphLike) ==
    [i \in 1..Len(rs) |-> BuildRow(rs[i], << >>, graphLike)]

\* AddColumns that makes a column per key of every row
RECURSIVE AddColumnsPerRow(_, _)
AddColumnsPerRow(cols, row) ==
    IF row = << >> THEN cols
    ELSE AddColumnsPerRow(Append(cols, Head(row).key), Tail(row))

\* the columns of pd.DataFrame(rows): the keys of the rows, by first appearance
RECURSIVE AddColumns(_, _)
AddColumns(cols, row) ==
    IF row = << >> THEN cols
    ELSE AddColumns(IF \E i \in 1..Len(cols) : cols[i] = Head(row).key
                    THEN cols ELSE Append(cols, Head(row).key),
                    Tail(row))

RECURSIVE ColumnsOf(_, _)
ColumnsOf(rows, cols) ==
    IF rows = << >> THEN cols
    ELSE ColumnsOf(Tail(rows), AddColumns(cols, Head(rows)))

\* the field names of the model and their title-cased form
KeyTitles ==
    { << FieldName(i), "F" \o ToString(i) >> : i \in 1..MaxFields }
      \cup { << "c", "C" >>, << "r", "R" >>, << "other", "Other" >>,
             << "LocationName", "Locationname" >>, << "p", "P" >> }

\* the column suffixes and what col.replace("_", " ").title() makes of them
SuffixTitles ==
    { << "", "" >>, << "_name", " Name" >>, << "_type", " Type" >>,
      << "_id", " Id" >>, << "_description", " Description" >>,
      << "_relationship", " Relationship" >>,
      << "_properties", " Properties" >>,
      << "_path_summary", " Path Summary" >>,
      << "_path_length", " Path Length" >>,
      << "_nodes_count", " Nodes Count" >>,
      << "_relationships_count", " Relationships Count" >>,
      << "_start_node", " Start Node" >>, << "_end_node", " End Node" >> }

\* col.replace("_", " ").title()
Humanize(col) ==
    LET p == CHOOSE p \in KeyTitles \X SuffixTitles : p[1][1] \o p[2][1] = col
    IN  p[1][2] \o p[2][2]

NoDataFrame == [columns |-> << >>, rows |-> << >>, none |-> TRUE]

create_dataframe_from_results(rs, has_objects) ==
    LET data == TableData(rs, has_objects)
        cols == ColumnsOf(data, << >>)
    IN  IF has_objects
        THEN IF data # << >>
             THEN [columns |-> [i \in 1..Len(cols) |-> Humanize(cols[i])],
                   rows |-> data, none |-> FALSE]
             ELSE NoDataFrame
        ELSE [columns |-> cols, rows |-> data, none |-> FALSE]

(* ---------------------------------------------------------------------- *)
(* The result view: render_query_results on one result set                 *)
(* ---------------------------------------------------------------------- *)

VARIABLES
    results,               \* the result set handed to render_query_results
    pc,                    \* where the rendering stands
    has_neo4j_objects,     \* the local of render_query_results
    table,                 \* what the table tab shows
    pos,                   \* the field value the loop of extract is at
    nodes_by_name,         \* the working collections of extract
    relationships_by_key,
    node_id_to_name,
    rel_log,               \* each relationship visited: key, attributes, raw ends
    node_log,              \* the name, id and labels of each node visited
    nodes,                 \* what extract returns
    relationships,
    prev_nodes,            \* what the call of extract before this one returned
    prev_relationships,
    prev_done,             \* whether there was such a call
    query_history,         \* st.session_state.query_history
    current_results,       \* st.session_state.current_results
    call_log,              \* what conn.run_query did in each call so far
    returned               \* what the last call returned

vars ==
    << results, pc, has_neo4j_objects, table, pos, nodes_by_name,
       relationships_by_key, node_id_to_name, rel_log, node_log, nodes,
       relationships, prev_nodes, prev_relationships, prev_done,
       query_history, current_results, call_log, returned >>

sessionVars == << query_history, current_results, call_log, returned >>

prevVars == << prev_nodes, prev_relationships, prev_done >>

extractVars ==
    << pos, nodes_by_name, relationships_by_key, node_id_to_name, rel_log,
       node_log, nodes, relationships, prevVars, sessionVars >>

NoTable == [view |-> "none", df |-> NoDataFrame, lines |-> << >>]

\* current_results: None, or a result set
NoResults == [none |-> TRUE, value |-> << >>]

SomeResults(rs) == [none |-> FALSE, value |-> rs]

\* the second element of the pair a call returns: None, the error message
\* or show_network_message
NoError == [kind |-> "none", text |-> "", flag |-> FALSE]

ErrorMessage(e) == [kind |-> "str", text |-> "Query failed: " \o e, flag |-> FALSE]

NetworkMessage(b) == [kind |-> "bool", text |-> "", flag |-> b]

\* initialize_session_state on a new session, no call made yet
SessionStart ==
    /\ query_history = << >>
    /\ current_results = NoResults
    /\ call_log = << >>
    /\ returned = [results |-> NoResults, error |-> NoError]

\* render_query_results is entered: nothing rendered, nothing extracted
Entered ==
    /\ pc = "start"
    /\ has_neo4j_objects = FALSE
    /\ table = NoTable
    /\ pos = FirstField(results, 1)
    /\ nodes_by_name = << >>
    /\ relationships_by_key = << >>
    /\ node_id_to_name = EmptyDict
    /\ rel_log = << >>
    /\ node_log = << >>
    /\ nodes = << >>
    /\ relationships = << >>
    /\ prev_nodes = << >>
    /\ prev_relationships = << >>
    /\ prev_done = FALSE

Init ==
    /\ \/ \E n \in 0..MaxValues : \E vs \in [1..n -> Values] :
            results = Records(vs)
       \/ results \in { GwynExample, PrimitiveExample }
    /\ Entered
    /\ SessionStart

\* render_query_results, "if not results": the warning, nothing rendered
RenderNoResults ==
    /\ pc = "start"
    /\ results = << >>
    /\ pc' = "noresults"
    /\ UNCHANGED << results, has_neo4j_objects, table >>
    /\ UNCHANGED extractVars

\* render_query_results up to the tabs
Classify ==
    /\ pc = "start"
    /\ results # << >>
    /\ has_neo4j_objects' = has_graph_objects(results)
    /\ pc' = "table"
    /\ UNCHANGED << results, table >>
    /\ UNCHANGED extractVars

\* _render_table_view, graph-like layout, the DataFrame is built
TableGraphLike ==
    /\ pc = "table"
    /\ has_neo4j_objects
    /\ LET df == create_dataframe_from_results(results, TRUE)
       IN  table' = [view |-> IF df.none THEN "nodata" ELSE "dataframe",
                     df |-> df, lines |-> << >>]
    /\ pc' = "graph"
    /\ UNCHANGED << results, has_neo4j_objects >>
    /\ UNCHANGED extractVars

\* _render_table_view, graph-like layout, create_dataframe_from_results
\* raises: no handler, the exception leaves render_query_results
TableGraphLikeRaises ==
    /\ pc = "table"
    /\ has_neo4j_objects
    /\ pc' = "raised"
    /\ UNCHANGED << results, has_neo4j_objects, table >>
    /\ UNCHANGED extractVars

\* _render_table_view, generic layout, the DataFrame is built
TableGeneric ==
    /\ pc = "table"
    /\ ~has_neo4j_objects
    /\ table' = [view |-> "dataframe",
                 df |-> create_dataframe_from_results(results, FALSE),
                 lines |-> << >>]
    /\ pc' = "graph"
    /\ UNCHANGED << results, has_neo4j_objects >>
    /\ UNCHANGED extractVars

\* _render_table_view, generic layout, create_dataframe_from_results raises:
\* the error is shown and the first records are written out
TableGenericRaises ==
    /\ pc = "table"
    /\ ~has_neo4j_objects
    /\ table' = [view |-> "fallback", df |-> NoDataFrame,
                 lines |-> Prefix(results, FallbackLimit)]
    /\ pc' = "graph"
    /\ UNCHANGED << results, has_neo4j_objects >>
    /\ UNCHANGED extractVars

(* ---------------------------------------------------------------------- *)
(* _render_graph_view: extract_nodes_and_relationships, one field value    *)
(* of the result set per step                                              *)
(* ---------------------------------------------------------------------- *)

Acc ==
    [nbn |-> nodes_by_name, rbk |-> relationships_by_key,
     idn |-> node_id_to_name, log |-> rel_log, seen |-> node_log]

\* the working collections at the start of a call of extract
\* that starts from the node_id_to_name of the call before
StaleIdsAcc ==
    [nbn |-> << >>, rbk |-> << >>, idn |-> node_id_to_name, log |-> << >>,
     seen |-> << >>]

\* the working collections at the start of a call of extract
FreshAcc ==
    [nbn |-> << >>, rbk |-> << >>, idn |-> EmptyDict, log |-> << >>,
     seen |-> << >>]

\* the field the loop is at
Current == results[pos[1]][pos[2]]

AtField == pc = "graph" /\ pos[1] <= Len(results)

\* the loop moves on with the working collections acc
Advance(acc) ==
    /\ nodes_by_name' = acc.nbn
    /\ relationships_by_key' = acc.rbk
    /\ node_id_to_name' = acc.idn
    /\ rel_log' = acc.log
    /\ node_log' = acc.seen
    /\ pos' = NextField(results, pos)
    /\ UNCHANGED << results, pc, has_neo4j_objects, table, nodes, relationships >>
    /\ UNCHANGED << prevVars, sessionVars >>

ProcessNode ==
    /\ AtField
    /\ IsLiveNode(Current.value)
    /\ Advance(_process_node_for_graph(Current.value, Acc))

ProcessRelationship ==
    /\ AtField
    /\ ~IsLiveNode(Current.value)
    /\ IsLiveRelationship(Current.value)
    /\ Advance(_process_relationship_for_graph(Current.value, Acc))

ProcessPath ==
    /\ AtField
    /\ IsDict(Current.value)
    /\ IsPathDict(Current.value.d)
    /\ Advance(_process_path_for_graph(Current.value.d, Acc))

ProcessNodeDict ==
    /\ AtField
    /\ IsDict(Current.value)
    /\ ~IsPathDict(Current.value.d)
    /\ Has(Current.value.d, "labels")
    /\ Advance(_process_node_dict_for_graph(Current.value.d, Acc, Current.key))

ProcessRelationshipDict ==
    /\ AtField
    /\ IsDict(Current.value)
    /\ ~IsPathDict(Current.value.d)
    /\ ~Has(Current.value.d, "labels")
    /\ IsRelationshipDict(Current.value.d)
    /\ Advance(_process_relationship_dict_for_graph(Current.value.d, Acc))

\* no branch takes the value
IgnoreValue ==
    /\ AtField
    /\ ~IsLiveNode(Current.value)
    /\ ~IsLiveRelationship(Current.value)
    /\ \/ ~IsDict(Current.value)
       \/ /\ ~IsPathDict(Current.value.d)
          /\ ~Has(Current.value.d, "labels")
          /\ ~IsRelationshipDict(Current.value.d)
    /\ Advance(Acc)

\* the end of the loop: the two lists, then _add_missing_referenced_nodes
AddMissingReferencedNodes ==
    /\ pc = "graph"
    /\ pos[1] > Len(results)
    /\ LET rels == OrderedValues(relationships_by_key)
       IN  /\ relationships' = rels
           /\ \E order \in Orderings(MissingNames(rels, nodes_by_name)) :
                LET added == [i \in 1..Len(order) |->
                                [key |-> order[i], val |-> Placeholder(order[i])]]
                IN  /\ nodes_by_name' = nodes_by_name \o added
                    /\ nodes' = OrderedValues(nodes_by_name)
                                  \o OrderedValues(added)
    /\ pc' = "done"
    /\ UNCHANGED << results, has_neo4j_objects, table, pos,
                    relationships_by_key, node_id_to_name, rel_log, node_log >>
    /\ UNCHANGED << prevVars, sessionVars >>

Next ==
    \/ RenderNoResults
    \/ Classify
    \/ TableGraphLike
    \/ TableGraphLikeRaises
    \/ TableGeneric
    \/ TableGenericRaises
    \/ ProcessNode
    \/ ProcessRelationship
    \/ ProcessPath
    \/ ProcessNodeDict
    \/ ProcessRelationshipDict
    \/ IgnoreValue
    \/ AddMissingReferencedNodes

Spec == Init /\ [][Next]_vars

(* ---------------------------------------------------------------------- *)
(* render_query_interface on a rerun of the script: the result set kept    *)
(* in the session is rendered again                                        *)
(* ---------------------------------------------------------------------- *)

\* Rerender that starts from the working collections of the call before
RerenderKeepingMaps ==
    /\ pc \in {"done", "noresults", "raised"}
    /\ pc' = "start"
    /\ has_neo4j_objects' = FALSE
    /\ table' = NoTable
    /\ pos' = FirstField(results, 1)
    /\ nodes' = << >>
    /\ relationships' = << >>
    /\ IF pc = "done"
       THEN /\ prev_nodes' = nodes
            /\ prev_relationships' = relationships
            /\ prev_done' = TRUE
       ELSE UNCHANGED prevVars
    /\ UNCHANGED << results, nodes_by_name, relationships_by_key,
                    node_id_to_name, rel_log, node_log >>
    /\ UNCHANGED sessionVars

\* render_query_results is called again on current_results: new locals, and
\* extract starts from new working collections
Rerender ==
    /\ pc \in {"done", "noresults", "raised"}
    /\ pc' = "start"
    /\ has_neo4j_objects' = FALSE
    /\ table' = NoTable
    /\ pos' = FirstField(results, 1)
    /\ nodes_by_name' = FreshAcc.nbn
    /\ relationships_by_key' = FreshAcc.rbk
    /\ node_id_to_name' = FreshAcc.idn
    /\ rel_log' = FreshAcc.log
    /\ node_log' = FreshAcc.seen
    /\ nodes' = << >>
    /\ relationships' = << >>
    /\ IF pc = "done"
       THEN /\ prev_nodes' = nodes
            /\ prev_relationships' = relationships
            /\ prev_done' = TRUE
       ELSE UNCHANGED prevVars
    /\ UNCHANGED << results, sessionVars >>

\* the session after a first query, of at most MaxRerenderValues values
InitRerender ==
    /\ \/ \E n \in 0..MaxRerenderValues : \E vs \in [1..n -> Values] :
            results = Records(vs)
       \/ results = GwynExample
    /\ Entered
    /\ SessionStart

NextRerender ==
    \/ Next
    \/ Rerender

SpecRerender == InitRerender /\ [][NextRerender]_vars

(* ---------------------------------------------------------------------- *)
(* A session: render_query_interface runs a query through execute_query    *)
(* or handle_auto_execute and renders what it returns.  run_query returns  *)
(* formatted records (dicts and primitives, no driver objects) or raises.  *)
(* ---------------------------------------------------------------------- *)

\* the query texts of the session: the default of the text area and the
\* query of the worked example
Queries ==
    { "MATCH (n) RETURN n LIMIT 10", "MATCH (c)-[r]-(other) RETURN c, r, other" }

\* a record with a path, a node and a relationship
PathExample ==
    << << Field("p", PyDict(PathDict(<< NodeGwynA, NodeSunB >>, << RelAB >>))),
          Field("c", PyDict(NodeGraveC)),
          Field("r", PyDict(RelABSince)) >> >>

\* the result sets run_query returns in the session
SessionResults == { << >>, PrimitiveExample, GwynExample, PathExample }

\* the exceptions run_query raises in the session, as str(e)
QueryErrors == { "Database connection not established" }

\* RecordQuery without the membership test
RecordQueryAlways(history, query) == Append(history, query)

\* if query not in query_history: query_history.append(query)
RecordQuery(history, query) ==
    IF \E i \in 1..Len(history) : history[i] = query
    THEN history ELSE Append(history, query)

\* a script run ended (or none began): the next call can be made
RunEnded ==
    /\ pc \in {"idle", "done", "noresults", "raised"}
    /\ Len(call_log) < MaxCalls

\* the body of the try of both calls, run_query having returned rs; the
\* handler then calls render_query_results(rs)
QuerySucceeds(query, rs, second) ==
    /\ current_results' = SomeResults(rs)
    /\ query_history' = RecordQuery(query_history, query)
    /\ call_log' = Append(call_log, [query |-> query, raised |-> FALSE,
                                     results |-> rs])
    /\ returned' = [results |-> SomeResults(rs), error |-> second]
    /\ results' = rs
    /\ pc' = "start"
    /\ has_neo4j_objects' = FALSE
    /\ table' = NoTable
    /\ pos' = FirstField(rs, 1)
    /\ nodes_by_name' = FreshAcc.nbn
    /\ relationships_by_key' = FreshAcc.rbk
    /\ node_id_to_name' = FreshAcc.idn
    /\ rel_log' = FreshAcc.log
    /\ node_log' = FreshAcc.seen
    /\ nodes' = << >>
    /\ relationships' = << >>
    /\ UNCHANGED prevVars

\* the except branch of both calls, run_query having raised e; the handler
\* shows the message and renders nothing
QueryRaises(query, e) ==
    /\ call_log' = Append(call_log, [query |-> query, raised |-> TRUE,
                                     results |-> << >>])
    /\ returned' = [results |-> NoResults, error |-> ErrorMessage(e)]
    /\ results' = << >>
    /\ pc' = "idle"
    /\ has_neo4j_objects' = FALSE
    /\ table' = NoTable
    /\ pos' = << 1, 1 >>
    /\ nodes_by_name' = FreshAcc.nbn
    /\ relationships_by_key' = FreshAcc.rbk
    /\ node_id_to_name' = FreshAcc.idn
    /\ rel_log' = FreshAcc.log
    /\ node_log' = FreshAcc.seen
    /\ nodes' = << >>
    /\ relationships' = << >>
    /\ UNCHANGED prevVars

\* _execute_query_handler, the query runs
ExecuteQuery ==
    /\ RunEnded
    /\ \E query \in Queries : \E rs \in SessionResults :
         QuerySucceeds(query, rs, NoError)

\* ExecuteQueryRaises that clears current_results
ExecuteQueryRaisesClearing ==
    /\ RunEnded
    /\ \E query \in Queries : \E e \in QueryErrors : QueryRaises(query, e)
    /\ current_results' = NoResults
    /\ UNCHANGED query_history

\* _execute_query_handler, the query raises
ExecuteQueryRaises ==
    /\ RunEnded
    /\ \E query \in Queries : \E e \in QueryErrors : QueryRaises(query, e)
    /\ UNCHANGED << current_results, query_history >>

\* _handle_auto_execute_handler, the query runs
HandleAutoExecute ==
    /\ RunEnded
    /\ \E query \in Queries : \E rs \in SessionResults :
         \E show_network_message \in BOOLEAN :
           QuerySucceeds(query, rs, NetworkMessage(show_network_message))

\* _handle_auto_execute_handler, the query raises
HandleAutoExecuteRaises ==
    /\ RunEnded
    /\ \E query \in Queries : \E e \in QueryErrors : QueryRaises(query, e)
    /\ UNCHANGED << current_results, query_history >>

\* the session before the first query: nothing to render
InitSession ==
    /\ results = << >>
    /\ pc = "idle"
    /\ has_neo4j_objects = FALSE
    /\ table = NoTable
    /\ pos = << 1, 1 >>
    /\ nodes_by_name = << >>
    /\ relationships_by_key = << >>
    /\ node_id_to_name = EmptyDict
    /\ rel_log = << >>
    /\ node_log = << >>
    /\ nodes = << >>
    /\ relationships = << >>
    /\ prev_nodes = << >>
    /\ prev_relationships = << >>
    /\ prev_done = FALSE
    /\ SessionStart

\* the steps of a session; run_query returns no driver object, so
\* ProcessNode and ProcessRelationship have no part in it
NextSession ==
    \/ ExecuteQuery
    \/ ExecuteQueryRaises
    \/ HandleAutoExecute
    \/ HandleAutoExecuteRaises
    \/ RenderNoResults
    \/ Classify
    \/ TableGraphLike
    \/ TableGraphLikeRaises
    \/ TableGeneric
    \/ TableGenericRaises
    \/ ProcessPath
    \/ ProcessNodeDict
    \/ ProcessRelationshipDict
    \/ IgnoreValue
    \/ AddMissingReferencedNodes

SpecSession == InitSession /\ [][NextSession]_vars

(* ---------------------------------------------------------------------- *)
(* Properties                                                              *)
(* ---------------------------------------------------------------------- *)

\* the indices of the returned nodes called name
NodesNamed(name) == { i \in 1..Len(nodes) : nodes[i]["name"] = name }

\* C1: when extract has returned, the source and the target of every returned
\* Relationship are the id of some returned Node.
ReferentialCompleteness ==
    pc = "done" =>
      \A i \in 1..Len(relationships) :
        /\ \E n \in 1..Len(nodes) : nodes[n]["id"] = relationships[i]["source"]
        /\ \E n \in 1..Len(nodes) : nodes[n]["id"] = relationships[i]["target"]

\* the two Relationships of the worked example: both from "Gwyn", both
\* ALSO_KNOWN_AS, different targets
GwynRelationships ==
    /\ Len(relationships) = 2
    /\ \A i \in 1..2 : /\ relationships[i]["source"] = "Gwyn"
                       /\ relationships[i]["type"] = "ALSO_KNOWN_AS"
    /\ relationships[1]["target"] # relationships[2]["target"]

\* C2 as stated: on the worked example extract returns one Node named "Gwyn",
\* three Nodes in all, and two ALSO_KNOWN_AS Relationships from "Gwyn" with
\* different targets.
GwynExampleThreeNodes ==
    (results = GwynExample /\ pc = "done") =>
      /\ Cardinality(NodesNamed("Gwyn")) = 1
      /\ Len(nodes) = 3
      /\ GwynRelationships

\* C2 amended: on the worked example extract returns one Node named "Gwyn",
\* five Nodes in all (Gwyn, Lord of Sunlight and Gravelord, then a
\* "Referenced" placeholder for each of the raw ids B and C, which r is
\* stored with because it is visited before `other`), and two ALSO_KNOWN_AS
\* Relationships from "Gwyn" whose targets are the raw ids B and C.
GwynExampleFiveNodes ==
    (results = GwynExample /\ pc = "done") =>
      /\ Cardinality(NodesNamed("Gwyn")) = 1
      /\ Len(nodes) = 5
      /\ << nodes[1]["name"], nodes[2]["name"], nodes[3]["name"] >>
           = << "Gwyn", "Lord of Sunlight", "Gravelord" >>
      /\ \A i \in 1..3 : nodes[i]["type"] = "Character"
      /\ { nodes[4]["name"], nodes[5]["name"] } = { "B", "C" }
      /\ \A i \in 4..5 : nodes[i]["type"] = "Referenced"
      /\ GwynRelationships
      /\ << relationships[1]["target"], relationships[2]["target"] >>
           = << "B", "C" >>

\* C2 witness: extract has returned on the worked example
GwynExampleDone == results = GwynExample /\ pc = "done"

\* C3: has_graph_objects is true exactly when some field value is node-like
\* (carries labels), relationship-like (carries a type with start and end) or
\* a path dictionary.
ClassifierCorrect ==
    pc = "table" =>
      (has_neo4j_objects <=>
         \E ij \in FieldsOf(results) :
           LET v == results[ij[1]][ij[2]].value
           IN  \/ IsLiveNode(v)
               \/ IsLiveRelationship(v)
               \/ /\ IsDict(v)
                  /\ \/ Has(v.d, "labels")
                     \/ IsRelationshipDict(v.d)
                     \/ IsPathDict(v.d))

\* C4: no two returned Relationships agree on source, target and type.
RelationshipTriplesUnique ==
    pc = "done" =>
      \A i, j \in 1..Len(relationships) :
        i # j =>
          << relationships[i]["source"], relationships[i]["target"],
             relationships[i]["type"] >>
            # << relationships[j]["source"], relationships[j]["target"],
                 relationships[j]["type"] >>

\* C5: nodes_by_name never holds two Nodes of the same name, and when extract
\* has returned, no two returned Nodes (placeholders included) have the same
\* name and every node-like value that was visited has exactly one returned
\* Node of its display name.
NodeNamesUnique ==
    /\ \A i, j \in 1..Len(nodes_by_name) :
         i # j => nodes_by_name[i].val["name"] # nodes_by_name[j].val["name"]
    /\ pc = "done" =>
         /\ \A i, j \in 1..Len(nodes) : i # j => nodes[i]["name"] # nodes[j]["name"]
         /\ \A k \in 1..Len(node_log) :
              Cardinality(NodesNamed(node_log[k].name)) = 1

\* C5 witness: extract has returned on a result set with two node-like values
\* of the same display name and different raw identifiers.
SameNameDifferentIdsDone ==
    /\ pc = "done"
    /\ \E a, b \in 1..Len(node_log) :
         /\ node_log[a].name = node_log[b].name
         /\ node_log[a].id # node_log[b].id

\* C6: for every (resolved source, resolved target, type) that two visited
\* relationship-like values share, exactly one returned Relationship has that
\* source, target and type, and it is the one built from the attributes of the
\* value visited first.
EdgeDedupFirstWins ==
    pc = "done" =>
      \A a, b \in 1..Len(rel_log) :
        (a < b /\ rel_log[a].key = rel_log[b].key
           /\ \A m \in 1..(a - 1) : rel_log[m].key # rel_log[a].key) =>
          LET key  == rel_log[a].key
              hits == { i \in 1..Len(relationships) :
                          << relationships[i]["source"],
                             relationships[i]["target"],
                             relationships[i]["type"] >> = key }
          IN  /\ Cardinality(hits) = 1
              /\ \A i \in hits :
                   Without(relationships[i], {"source", "target", "type"})
                     = Without(rel_log[a].rest, {"source", "target", "type"})

\* C7: a returned Node that a visited value created has the slash-joined
\* labels of that value as its type, "Unknown" when the value has no labels;
\* its type is "Referenced" exactly when no visited value created it.
NodeTypeFromLabels ==
    pc = "done" =>
      \A i \in 1..Len(nodes) :
        LET made == { k \in 1..Len(node_log) :
                        node_log[k].name = nodes[i]["name"] }
        IN  IF made = {}
            THEN nodes[i]["type"] = "Referenced"
            ELSE LET src == node_log[CHOOSE k \in made : \A m \in made : k <= m]
                 IN  /\ nodes[i]["type"] # "Referenced"
                     /\ nodes[i]["type"] =
                          IF src.labels = << >> THEN "Unknown"
                          ELSE JoinSlash(src.labels)

\* C8: a failure of create_dataframe_from_results never leaves the table view.
ProjectionFailureCaught == pc # "raised"

\* C9: in the graph-like table the row of a record has, for each node-like
\* field, the columns {field}_name, {field}_type and {field}_id, and
\* {field}_description exactly when the node has a non-empty description.
NodeColumns ==
    (has_neo4j_objects /\ table.view = "dataframe") =>
      \A ij \in FieldsOf(results) :
        LET f     == results[ij[1]][ij[2]]
            row   == table.df.rows[ij[1]]
            props == IF IsLiveNode(f.value) THEN f.value.d["props"] ELSE f.value.d
        IN  (IsLiveNode(f.value)
               \/ (IsDict(f.value) /\ ~IsPathDict(f.value.d)
                     /\ Has(f.value.d, "labels"))) =>
              /\ InOrdered(row, f.key \o "_name")
              /\ InOrdered(row, f.key \o "_type")
              /\ InOrdered(row, f.key \o "_id")
              /\ InOrdered(row, f.key \o "_description")
                   <=> (Has(props, "description") /\ props["description"] # "")

\* C10: in the graph-like table the row of a record has, for each
\* relationship-like field, the columns {field}_relationship and {field}_id,
\* and, when the relationship has attributes besides type, start and end, a
\* {field}_properties column of the first three as "k: v" joined by commas.
RelationshipColumns ==
    (has_neo4j_objects /\ table.view = "dataframe") =>
      \A ij \in FieldsOf(results) :
        LET f      == results[ij[1]][ij[2]]
            row    == table.df.rows[ij[1]]
            props  == IF IsLiveRelationship(f.value)
                      THEN f.value.d["props"] ELSE f.value.d
            custom == Without(props, {"type", "start", "end"})
        IN  (IsLiveRelationship(f.value)
               \/ (IsDict(f.value) /\ ~IsPathDict(f.value.d)
                     /\ ~Has(f.value.d, "labels")
                     /\ IsRelationshipDict(f.value.d))) =>
              /\ InOrdered(row, f.key \o "_relationship")
              /\ InOrdered(row, f.key \o "_id")
              /\ DOMAIN custom # {} =>
                   /\ InOrdered(row, f.key \o "_properties")
                   /\ Item(row, f.key \o "_properties")
                        = JoinComma(PropList(custom, Keys(custom)))

\* the description of a node-like field value, "" when it has none
DescriptionOf(v) ==
    LET props == IF IsLiveNode(v) THEN v.d["props"] ELSE v.d
    IN  Get(props, "description", "")

\* the fields of the result set that get a description cell
DescribedFields ==
    { p \in FieldsOf(results) :
        LET v == results[p[1]][p[2]].value
        IN  /\ IsLiveNode(v) \/ (IsDict(v) /\ ~IsPathDict(v.d) /\ Has(v.d, "labels"))
            /\ DescriptionOf(v) # "" }

\* C11: in the graph-like table every {field}_description cell is the source
\* description itself when that has at most 100 characters, and otherwise its
\* first 100 characters followed by "...", 103 characters in all.
TruncationLaw ==
    (has_neo4j_objects /\ table.view = "dataframe") =>
      \A p \in DescribedFields :
        LET f    == results[p[1]][p[2]]
            desc == DescriptionOf(f.value)
            cell == Item(table.df.rows[p[1]], f.key \o "_description")
        IN  IF Len(desc) <= 100
            THEN cell = desc
            ELSE /\ Len(cell) = 103
                 /\ SubSeq(cell, 1, 100) = SubSeq(desc, 1, 100)
                 /\ SubSeq(cell, 101, 103) = "..."

\* C11 witness: the table shows a description of more than 100 characters
\* and one of exactly 100.
LongAndExactDescriptionShown ==
    /\ has_neo4j_objects
    /\ table.view = "dataframe"
    /\ \E p \in DescribedFields :
         Len(DescriptionOf(results[p[1]][p[2]].value)) > 100
    /\ \E p \in DescribedFields :
         Len(DescriptionOf(results[p[1]][p[2]].value)) = 100

\* the field names of the result set
FieldNames == { results[p[1]][p[2]].key : p \in FieldsOf(results) }

\* every field value of the result set is a primitive
AllPrimitive ==
    \A p \in FieldsOf(results) : results[p[1]][p[2]].value.kind \in {"str", "none"}

\* C12: for a non-empty result set of primitives only, the classifier says
\* false, extract returns no Node and no Relationship, and the table has one
\* row per record and one column per distinct field name.
PrimitiveOnly ==
    (results # << >> /\ AllPrimitive) =>
      /\ pc # "start" => ~has_neo4j_objects
      /\ pc = "done" => (nodes = << >> /\ relationships = << >>)
      /\ table.view = "dataframe" =>
           /\ Len(table.df.rows) = Len(results)
           /\ Len(table.df.columns) = Cardinality(FieldNames)
           /\ { table.df.columns[i] : i \in 1..Len(table.df.columns) } = FieldNames

\* C12 witness: the example {LocationName: "Anor Londo"} is rendered as a
\* table of one row and one column and extract has returned.
PrimitiveExampleDone ==
    /\ results = PrimitiveExample
    /\ pc = "done"
    /\ table.view = "dataframe"
    /\ Len(table.df.rows) = 1
    /\ table.df.columns = << "LocationName" >>

\* C19: in the generic layout the table has one row per record, in record
\* order; a list or dict value is shown as its string form, None as "", every
\* other value as it is; the columns are the field names of all records.
GenericLayout ==
    (~has_neo4j_objects /\ table.view = "dataframe") =>
      /\ Len(table.df.rows) = Len(results)
      /\ \A p \in FieldsOf(results) :
           LET f    == results[p[1]][p[2]]
               row  == table.df.rows[p[1]]
               cell == Item(row, f.key)
           IN  /\ InOrdered(row, f.key)
               /\ Len(row) = Len(results[p[1]])
               /\ IF f.value.kind \in {"list", "dict"}
                  THEN cell = [str_of |-> f.value, cut |-> 0]
                  ELSE IF f.value.kind = "none" THEN cell = ""
                  ELSE cell = f.value
      /\ { table.df.columns[i] : i \in 1..Len(table.df.columns) } = FieldNames

\* C19 witness: the generic table of a result set with a list, a dict, a None
\* and a string.
GenericTableOfAllKinds ==
    /\ ~has_neo4j_objects
    /\ table.view = "dataframe"
    /\ { results[p[1]][p[2]].value.kind : p \in FieldsOf(results) }
         = {"list", "dict", "none"}

\* C20: when has_graph_objects is false, extract returns no Node and no
\* Relationship.
ClassifierFalseExtractEmpty ==
    (pc = "done" /\ ~has_neo4j_objects) =>
      (nodes = << >> /\ relationships = << >>)

\* C20 witness: extract has returned on a result set the classifier rejected
\* that holds a dict and a list.
RejectedResultExtracted ==
    /\ pc = "done"
    /\ ~has_neo4j_objects
    /\ \E p \in FieldsOf(results) : results[p[1]][p[2]].value.kind = "dict"
    /\ \E p \in FieldsOf(results) : results[p[1]][p[2]].value.kind = "list"

\* C15: a relationship visited while the raw identifier of an endpoint is not
\* yet in node_id_to_name is stored with that raw identifier as its source or
\* target, in every later state of the call; and when a node with that raw
\* identifier is visited later, the returned nodes hold both the named Node
\* and a "Referenced" placeholder whose name is the raw identifier.
NoRetroactiveRename ==
    pc \in {"graph", "done"} =>
      \A k \in 1..Len(rel_log) :
        LET e    == rel_log[k]
            hits == { i \in 1..Len(relationships_by_key) :
                        relationships_by_key[i].key = e.key }
            side == << "source", "target" >>
        IN  /\ hits # {}
            /\ \A i \in hits : \A s \in 1..2 :
                 ~e.known[s] => relationships_by_key[i].val[side[s]] = e.raw[s]
            /\ pc = "done" =>
                 \A s \in 1..2 :
                   (~e.known[s] /\ Has(node_id_to_name, e.raw[s])) =>
                     /\ \E n \in 1..Len(nodes) :
                          nodes[n]["name"] = node_id_to_name[e.raw[s]]
                     /\ \E n \in 1..Len(nodes) :
                          /\ nodes[n]["name"] = e.raw[s]
                          /\ nodes[n]["type"] = "Referenced"

\* the ids and the display names of the nodes listed in a path dictionary
PathNodeIds(d) ==
    { Str(Get(d["nodes"][i], "id", Get(d["nodes"][i], "name", "")))
        : i \in 1..Len(d["nodes"]) }

PathNodeNames(d) ==
    { Get(d["nodes"][i], "name", Str(Get(d["nodes"][i], "id", "")))
        : i \in 1..Len(d["nodes"]) }

\* every relationship of the path starts and ends at a node of the path
PathClosed(d) ==
    \A i \in 1..Len(d["relationships"]) :
      LET r == d["relationships"][i]
      IN  /\ Has(r, "start") /\ Str(r["start"]) \in PathNodeIds(d)
          /\ Has(r, "end") /\ Str(r["end"]) \in PathNodeIds(d)

\* the step that processes a closed path: both ends of each of its
\* relationships are already in node_id_to_name when it is resolved, every
\* Relationship the path adds has display names of the path's nodes as source
\* and target, and it names no node that nodes_by_name lacks
ClosedPathStep ==
    (AtField /\ IsDict(Current.value) /\ IsPathDict(Current.value.d)
       /\ PathClosed(Current.value.d) /\ pos' # pos) =>
      LET d     == Current.value.d
          names == PathNodeNames(d)
      IN  /\ \A k \in (Len(rel_log) + 1)..Len(rel_log') :
               /\ rel_log'[k].known = << TRUE, TRUE >>
               /\ rel_log'[k].key[1] \in names
               /\ rel_log'[k].key[2] \in names
          /\ \A i \in (Len(relationships_by_key) + 1)..Len(relationships_by_key') :
               LET rel == relationships_by_key'[i].val
               IN  /\ rel["source"] \in names
                   /\ rel["target"] \in names
                   /\ InOrdered(nodes_by_name', rel["source"])
                   /\ InOrdered(nodes_by_name', rel["target"])

\* C16: when a path dictionary is processed, all of its nodes are entered in
\* node_id_to_name before any of its relationships is resolved; for a path
\* whose relationships all start and end at nodes of the same path, every
\* resulting Relationship has display names of the path's nodes as source and
\* target, and the path contributes no placeholder.
PathOrdering == [][ClosedPathStep]_vars

\* a sequence without the repetitions of its earlier elements
RECURSIVE FirstEncounters(_)
FirstEncounters(xs) ==
    IF xs = << >> THEN << >>
    ELSE LET front == FirstEncounters(SubSeq(xs, 1, Len(xs) - 1))
             last  == xs[Len(xs)]
         IN  IF \E i \in 1..Len(front) : front[i] = last
             THEN front ELSE Append(front, last)

\* C17: extract returns the discovered Nodes in order of first encounter,
\* then the placeholders; the Relationships in order of first encounter;
\* exactly one "Referenced" placeholder for each distinct source or target
\* name that has no Node and none for a name that has one; the synthesis of
\* the placeholders adds or changes no Relationship.
OutputOrderAndPlaceholders ==
    pc = "done" =>
      LET found == FirstEncounters([k \in 1..Len(node_log) |-> node_log[k].name])
          keys  == FirstEncounters([k \in 1..Len(rel_log) |-> rel_log[k].key])
          ends  == { relationships[i]["source"] : i \in 1..Len(relationships) }
                     \cup { relationships[i]["target"] : i \in 1..Len(relationships) }
          discovered == { found[k] : k \in 1..Len(found) }
          holders(n) == { i \in (Len(found) + 1)..Len(nodes) :
                            nodes[i]["name"] = n }
      IN  /\ Len(nodes) >= Len(found)
          /\ \A k \in 1..Len(found) : nodes[k]["name"] = found[k]
          /\ \A i \in (Len(found) + 1)..Len(nodes) :
               /\ nodes[i] = Placeholder(nodes[i]["name"])
               /\ nodes[i]["name"] \in ends \ discovered
          /\ \A n \in ends \ discovered : Cardinality(holders(n)) = 1
          /\ [i \in 1..Len(relationships_by_key) |-> relationships_by_key[i].key]
               = keys
          /\ relationships = OrderedValues(relationships_by_key)

\* a value none of the branches of extract takes: a primitive, a list, or a
\* dict that is no path, has no labels and lacks one of type, start and end
Unrecognised(v) ==
    \/ v.kind \in {"str", "none", "list"}
    \/ /\ v.kind = "dict"
       /\ ~(Has(v.d, "path_type") /\ v.d["path_type"] = "neo4j_path")
       /\ ~Has(v.d, "labels")
       /\ ~({"type", "start", "end"} \subseteq DOMAIN v.d)

\* the result set without the field p
WithoutField(rs, p) ==
    [i \in 1..Len(rs) |->
       IF i = p[1]
       THEN SubSeq(rs[i], 1, p[2] - 1) \o SubSeq(rs[i], p[2] + 1, Len(rs[i]))
       ELSE rs[i]]

\* C18: a field whose value is a primitive, a list or a dict of none of the
\* graph shapes does not stop the loop, and extract returns the Nodes and
\* Relationships it returns for the result set without that field (the
\* placeholders in any order).
UnrecognisedIgnored ==
    /\ (AtField /\ Unrecognised(Current.value)) => ENABLED IgnoreValue
    /\ pc = "done" =>
         \A p \in FieldsOf(results) :
           Unrecognised(results[p[1]][p[2]].value) =>
             LET rest    == WithoutField(results, p)
                 acc     == ExtractFrom(rest, FirstField(rest, 1), FreshAcc)
                 found   == OrderedValues(acc.nbn)
                 missing == MissingNames(OrderedValues(acc.rbk), acc.nbn)
             IN  /\ relationships = OrderedValues(acc.rbk)
                 /\ Len(nodes) = Len(found) + Cardinality(missing)
                 /\ SubSeq(nodes, 1, Len(found)) = found
                 /\ { nodes[i] : i \in (Len(found) + 1)..Len(nodes) }
                      = { Placeholder(n) : n \in missing }

\* C18 witness: extract has returned Nodes and Relationships on a result set
\* that holds a dict with a type and neither start nor end.
TypeOnlyDictIgnored ==
    /\ pc = "done"
    /\ nodes # << >>
    /\ relationships # << >>
    /\ \E p \in FieldsOf(results) :
         LET v == results[p[1]][p[2]].value
         IN  Unrecognised(v) /\ v.kind = "dict" /\ Has(v.d, "type")

\* the working collections are empty
MapsEmpty ==
    /\ nodes_by_name = << >>
    /\ relationships_by_key = << >>
    /\ node_id_to_name = EmptyDict

\* C13: no step of the table view or of extract changes the result set, and
\* every rendering starts with empty working collections, whatever the
\* rendering before it left in them.
Purity ==
    [][/\ results' = results
       /\ pc' \in {"start", "table"} => MapsEmpty']_vars

\* C13 witness: the result set is rendered a second time, its table is built
\* and extract begins, after a call of extract that returned Nodes and
\* Relationships.
SecondCallStarted ==
    /\ pc = "graph"
    /\ pos = FirstField(results, 1)
    /\ table.view = "dataframe"
    /\ prev_done
    /\ prev_nodes # << >>
    /\ prev_relationships # << >>

\* the elements of a sequence
Range(xs) == { xs[i] : i \in 1..Len(xs) }

\* C14: a second run of extract on the same result set returns the same set
\* of Nodes and the same set of Relationships as the run before it.
Idempotence ==
    (pc = "done" /\ prev_done) =>
      /\ Range(nodes) = Range(prev_nodes)
      /\ Len(nodes) = Len(prev_nodes)
      /\ Range(relationships) = Range(prev_relationships)
      /\ Len(relationships) = Len(prev_relationships)

\* C14 witness: the second run has returned the Nodes of the first in another
\* order, with Relationships.
SecondRunOtherOrder ==
    /\ pc = "done"
    /\ prev_done
    /\ nodes # prev_nodes
    /\ relationships # << >>

\* the calls that succeeded, in order
Succeeded == SelectSeq(call_log, LAMBDA c : ~c.raised)

\* current_results is what the most recent successful call got from
\* run_query, None when no call succeeded
MostRecentKept ==
    current_results =
      IF Succeeded = << >> THEN NoResults
      ELSE SomeResults(Succeeded[Len(Succeeded)].results)

\* a call that raises returns (None, error message) and leaves
\* current_results and query_history as they were
RaiseLeavesSession ==
    (Len(call_log') = Len(call_log) + 1 /\ call_log'[Len(call_log')].raised) =>
      /\ returned'.results = NoResults
      /\ returned'.error.kind = "str"
      /\ current_results' = current_results
      /\ query_history' = query_history

\* C21: after any sequence of execute_query and handle_auto_execute calls,
\* current_results is the result set of the most recent call that succeeded
\* (None if none has); a call whose query raises returns an error message and
\* leaves current_results and query_history unchanged.
MostRecentResultSet ==
    [][MostRecentKept /\ MostRecentKept' /\ RaiseLeavesSession]_vars

\* C21 witness: the last call raised, after a call that returned records
\* which followed a call that returned other records; the records of the
\* later of the two are kept.
RaisedAfterTwoResults ==
    /\ Len(call_log) = 3
    /\ ~call_log[1].raised
    /\ ~call_log[2].raised
    /\ call_log[3].raised
    /\ call_log[1].results # call_log[2].results
    /\ call_log[2].results # << >>
    /\ current_results = SomeResults(call_log[2].results)

\* the history without an entry removed or moved: a prefix of the next one
HistoryGrows ==
    /\ Len(query_history') >= Len(query_history)
    /\ SubSeq(query_history', 1, Len(query_history)) = query_history

\* the place of the first success of a query among the calls that succeeded
FirstSuccess(query) ==
    CHOOSE k \in 1..Len(Succeeded) :
      /\ Succeeded[k].query = query
      /\ \A m \in 1..(k - 1) : Succeeded[m].query # query

\* query_history holds no text twice, and it is the texts of the calls that
\* succeeded, each at the place of its first success
HistoryOfSuccesses ==
    /\ \A i, j \in 1..Len(query_history) :
         i # j => query_history[i] # query_history[j]
    /\ { query_history[i] : i \in 1..Len(query_history) }
         = { Succeeded[k].query : k \in 1..Len(Succeeded) }
    /\ \A i, j \in 1..Len(query_history) :
         i < j => FirstSuccess(query_history[i]) < FirstSuccess(query_history[j])

\* C22: after any sequence of query executions, query_history has no
\* duplicate, holds exactly the query texts executed successfully at least
\* once, in the order of their first success, and no entry is ever removed
\* or reordered.
QueryHistoryLaw ==
    [][HistoryOfSuccesses /\ HistoryOfSuccesses' /\ HistoryGrows]_vars

\* C22 witness: one query succeeded twice with a failure of the other query
\* in between, and the history holds the one text once.
RepeatedQueryOnce ==
    /\ Len(call_log) = 3
    /\ ~call_log[1].raised
    /\ call_log[2].raised
    /\ ~call_log[3].raised
    /\ call_log[1].query = call_log[3].query
    /\ call_log[2].query # call_log[1].query
    /\ query_history = << call_log[1].query >>

====
